---- MODULE Spec2Model ----
(***************************************************************************)
(* Model of netlify/functions/passenger.js: one invocation of the handler  *)
(* that proxies passenger loads and saves to Odoo over JSON-RPC.           *)
(*                                                                         *)
(* JavaScript values are tagged records; strings that the code inspects    *)
(* (trim, toLowerCase, regular expression) are sequences of one-character  *)
(* strings.  Every upstream call is one await: the model has one action    *)
(* per stretch of code between two awaits, and draws what the upstream     *)
(* answers from a small set.                                               *)
(***************************************************************************)
EXTENDS Integers, Sequences, FiniteSets, TLC

VARIABLES event, env, pc, uid, passengersData, validIds, cursor, calls, response

vars == <<event, env, pc, uid, passengersData, validIds, cursor, calls, response>>

(***************************************************************************)
(* Bounds of the model.                                                    *)
(***************************************************************************)
MaxPassengers == 2      \* longest passengers array of a save request
MaxRecords == 2         \* most records a search_read returns
MaxKeys == 1            \* most keys besides id on an entry of the field family
MaxPad == 1             \* blanks put before or after a padded date input

(***************************************************************************)
(* JavaScript values.                                                      *)
(***************************************************************************)
Undefined == [type |-> "undefined"]
Null == [type |-> "null"]
Str(s) == [type |-> "string", s |-> s]
Num(n) == [type |-> "number", n |-> n]
Bool(b) == [type |-> "boolean", b |-> b]
Arr(items) == [type |-> "array", items |-> items]

\* ToBoolean
Truthy(v) ==
    CASE v.type = "undefined" -> FALSE
      [] v.type = "null" -> FALSE
      [] v.type = "string" -> v.s # <<>>
      [] v.type = "number" -> v.n # 0
      [] v.type = "boolean" -> v.b
      [] OTHER -> TRUE

\* v != null
NotNullish(v) == v.type \notin {"undefined", "null"}

\* typeof v === 'string'
IsString(v) == v.type = "string"

\* a || b
Or(a, b) == IF Truthy(a) THEN a ELSE b

Digits == <<"0", "1", "2", "3", "4", "5", "6", "7", "8", "9">>
Upper == <<"A", "B", "C", "D", "E", "F", "G", "H", "I", "J", "K", "L", "M",
           "N", "O", "P", "Q", "R", "S", "T", "U", "V", "W", "X", "Y", "Z">>
Lower == <<"a", "b", "c", "d", "e", "f", "g", "h", "i", "j", "k", "l", "m",
           "n", "o", "p", "q", "r", "s", "t", "u", "v", "w", "x", "y", "z">>
WhiteSpace == {" "}

IsDigit(c) == \E i \in 1..Len(Digits) : Digits[i] = c

\* String(v), for the values the model feeds it (numbers are 0..9)
JsString(v) ==
    CASE v.type = "string" -> v.s
      [] v.type = "number" -> <<Digits[v.n + 1]>>
      [] v.type = "boolean" -> IF v.b THEN <<"t", "r", "u", "e">>
                                       ELSE <<"f", "a", "l", "s", "e">>
      [] v.type = "null" -> <<"n", "u", "l", "l">>
      [] OTHER -> <<"u", "n", "d", "e", "f", "i", "n", "e", "d">>

RECURSIVE TrimStart(_)
TrimStart(s) ==
    IF s # <<>> /\ Head(s) \in WhiteSpace THEN TrimStart(Tail(s)) ELSE s

RECURSIVE TrimEnd(_)
TrimEnd(s) ==
    IF s # <<>> /\ s[Len(s)] \in WhiteSpace
    THEN TrimEnd(SubSeq(s, 1, Len(s) - 1))
    ELSE s

\* String.prototype.trim
Trim(s) == TrimEnd(TrimStart(s))

ToLowerChar(c) ==
    IF \E i \in 1..Len(Upper) : Upper[i] = c
    THEN Lower[CHOOSE i \in 1..Len(Upper) : Upper[i] = c]
    ELSE c

\* String.prototype.toLowerCase
ToLowerCase(s) == [i \in 1..Len(s) |-> ToLowerChar(s[i])]

(***************************************************************************)
(* Field mapper.                                                           *)
(***************************************************************************)
\* /^(\d{2})\/(\d{2})\/(\d{4})$/ : "d" is \d, anything else is itself
DatePattern == <<"d", "d", "/", "d", "d", "/", "d", "d", "d", "d">>

MatchesPattern(s, pat) ==
    /\ Len(s) = Len(pat)
    /\ \A i \in 1..Len(pat) :
          IF pat[i] = "d" THEN IsDigit(s[i]) ELSE s[i] = pat[i]

\* day and month exchanged in the result
toOdooDateSwapped(ddmmyyyy) ==
    IF ~Truthy(ddmmyyyy) THEN Null
    ELSE LET s == Trim(JsString(ddmmyyyy))
         IN IF ~MatchesPattern(s, DatePattern) THEN Null
            ELSE Str(SubSeq(s, 7, 10) \o <<"-">> \o SubSeq(s, 1, 2)
                     \o <<"-">> \o SubSeq(s, 4, 5))

toOdooDate(ddmmyyyy) ==
    IF ~Truthy(ddmmyyyy) THEN Null
    ELSE LET s == Trim(JsString(ddmmyyyy))
         IN IF ~MatchesPattern(s, DatePattern) THEN Null
            ELSE LET dd == SubSeq(s, 1, 2)
                     mm == SubSeq(s, 4, 5)
                     yyyy == SubSeq(s, 7, 10)
                 IN Str(yyyy \o <<"-">> \o mm \o <<"-">> \o dd)

RatherNotSay ==
    { <<"r", "a", "t", "h", "e", "r", " ", "n", "o", "t", " ", "s", "a", "y">>,
      <<"r", "a", "t", "h", "e", "r", "_", "n", "o", "t", "_", "s", "a", "y">>,
      <<"p", "r", "e", "f", "e", "r", " ", "n", "o", "t", " ", "t", "o", " ",
        "s", "a", "y">> }

RATHER_NOT_SAY ==
    Str(<<"R", "A", "T", "H", "E", "R", "_", "N", "O", "T", "_", "S", "A", "Y">>)

normalizeSex(v) ==
    IF ~Truthy(v) THEN Null
    ELSE LET s == ToLowerCase(Trim(JsString(v)))
         IN CASE s = <<"m", "a", "l", "e">> -> Str(<<"M", "A", "L", "E">>)
              [] s = <<"f", "e", "m", "a", "l", "e">> ->
                     Str(<<"F", "E", "M", "A", "L", "E">>)
              [] s \in RatherNotSay -> RATHER_NOT_SAY
              [] OTHER -> Str(Trim(JsString(v)))

normalizeMaritalStatus(v) ==
    IF ~Truthy(v) THEN Null
    ELSE LET s == ToLowerCase(Trim(JsString(v)))
         IN CASE s = <<"s", "i", "n", "g", "l", "e">> ->
                     Str(<<"S", "I", "N", "G", "L", "E">>)
              [] s = <<"m", "a", "r", "r", "i", "e", "d">> ->
                     Str(<<"M", "A", "R", "R", "I", "E", "D">>)
              [] s \in RatherNotSay -> RATHER_NOT_SAY
              [] OTHER -> Str(Trim(JsString(v)))

(***************************************************************************)
(* Objects: a mapping from the keys present to values.                     *)
(***************************************************************************)
Obj(f) == [type |-> "object", f |-> f]

\* v.k for a v that is neither null nor undefined
Get(v, k) == IF v.type = "object" /\ k \in DOMAIN v.f THEN v.f[k] ELSE Undefined

\* Array.isArray(v)
IsArray(v) == v.type = "array"

\* reading a property of null or undefined throws a TypeError
Nullish(v) == v.type \in {"undefined", "null"}

load == Str(<<"l", "o", "a", "d">>)
save == Str(<<"s", "a", "v", "e">>)

(***************************************************************************)
(* buildCorsHeaders                                                        *)
(***************************************************************************)
allowedOrigins ==
    { "https://adventurebound.travel", "https://www.adventurebound.travel" }

\* event?.headers?.origin || event?.headers?.Origin || ''
OriginOf(ev) ==
    LET h == ev.headers
        o1 == IF Nullish(h) THEN "" ELSE h.origin
        o2 == IF Nullish(h) THEN "" ELSE h.Origin
    IN IF o1 # "" THEN o1 ELSE o2

buildCorsHeaders(ev) ==
    LET origin == OriginOf(ev)
        allowOrigin == IF origin \in allowedOrigins
                       THEN origin
                       ELSE "https://www.adventurebound.travel"
    IN [ AccessControlAllowOrigin |-> allowOrigin,
         AccessControlAllowHeaders |-> "Content-Type",
         AccessControlAllowMethods |-> "POST, OPTIONS",
         ContentType |-> "application/json" ]

(***************************************************************************)
(* Save: the values mapping computed from one passenger entry.             *)
(***************************************************************************)
\* d = toOdooDate(v) || v
DateOrOriginal(v) == Or(toOdooDate(v), v)

Put(cond, k, v) == IF cond THEN {<<k, v>>} ELSE {}

ValsPairs(p) ==
    Put(IsString(Get(p, "first_name")), "x_passenger_first_name", Get(p, "first_name"))
    \cup Put(IsString(Get(p, "middle_name")), "x_passenger_middle_name",
             Get(p, "middle_name"))
    \cup Put(IsString(Get(p, "last_name")), "x_passenger_last_name", Get(p, "last_name"))
    \cup Put(NotNullish(Get(p, "sex")), "x_sex", normalizeSex(Get(p, "sex")))
    \cup Put(NotNullish(Get(p, "marital_status")), "x_marrital_status",
             normalizeMaritalStatus(Get(p, "marital_status")))
    \cup Put(NotNullish(Get(p, "date_of_birth")), "x_date_of_birth",
             DateOrOriginal(Get(p, "date_of_birth")))
    \cup Put(NotNullish(Get(p, "passport_issue_date")), "x_passport_issue_date",
             DateOrOriginal(Get(p, "passport_issue_date")))
    \cup Put(NotNullish(Get(p, "passport_expiry_date")), "x_passport_expiry_date",
             DateOrOriginal(Get(p, "passport_expiry_date")))
    \cup Put(IsString(Get(p, "email")), "x_passenger_email", Get(p, "email"))
    \cup Put(IsString(Get(p, "nationality")), "x_nationality", Get(p, "nationality"))
    \cup Put(IsString(Get(p, "home_address")), "x_home_address", Get(p, "home_address"))
    \cup Put(IsString(Get(p, "job_position")), "x_job_position", Get(p, "job_position"))
    \cup Put(IsString(Get(p, "working_at")), "x_working_at", Get(p, "working_at"))
    \cup Put(IsString(Get(p, "passport_number")), "x_passport_number",
             Get(p, "passport_number"))
    \cup Put(IsString(Get(p, "notes")), "x_notes", Get(p, "notes"))

FromValsPairs(pairs) ==
    [k \in {pr[1] : pr \in pairs} |-> (CHOOSE pr \in pairs : pr[1] = k)[2]]

\* keys outside the allow-list copied too
ValsEveryKey(p) ==
    FromValsPairs(ValsPairs(p)
                  \cup {<<k, p.f[k]>> : k \in {"x_studio_test_token", "superAdmin"}
                                               \cap DOMAIN p.f})

\* vals, as a mapping from the internal fields set to their values
Vals(p) ==
    LET pairs == ValsPairs(p)
    IN [k \in {pr[1] : pr \in pairs} |-> (CHOOSE pr \in pairs : pr[1] = k)[2]]

(***************************************************************************)
(* Save: the loop over the passengers array, run from entry i up to the    *)
(* next await (a write), the end of the array, or a TypeError.             *)
(***************************************************************************)
TypeErrorId ==
    [name |-> "TypeError", message |-> "Cannot read properties of null (reading 'id')"]

\* the ids of the records of `existing`: new Set((existing || []).map(p => p.id))
IdSet(existing) ==
    IF ~Truthy(existing) THEN {}
    ELSE {Get(existing.items[i], "id") : i \in 1..Len(existing.items)}

\* if (!p.id || !validIds.has(p.id)) continue
Skipped(p, valid) == ~Truthy(Get(p, "id")) \/ Get(p, "id") \notin valid

RECURSIVE Scan(_, _, _)
Scan(items, valid, i) ==
    IF i > Len(items) THEN [kind |-> "done"]
    ELSE LET p == items[i]
         IN IF Nullish(p) THEN [kind |-> "throw", at |-> i, err |-> TypeErrorId]
            ELSE IF Skipped(p, valid) \/ DOMAIN Vals(p) = {}
                 THEN Scan(items, valid, i + 1)
                 ELSE [kind |-> "write", at |-> i,
                       id |-> Get(p, "id"), vals |-> Vals(p)]

(***************************************************************************)
(* RPC client.  An HTTP exchange either rejects (no answer), answers with  *)
(* a status that is not ok, or answers with a JSON-RPC envelope.           *)
(***************************************************************************)
HttpFailures ==
    { [rejected |-> TRUE],
      [rejected |-> FALSE, ok |-> FALSE, status |-> "503", text |-> "unavailable"],
      [rejected |-> FALSE, ok |-> TRUE,
       data |-> [error |-> TRUE, errorJson |-> "{\"code\":200}"]] }

HttpResults(results) ==
    { [rejected |-> FALSE, ok |-> TRUE, data |-> [error |-> FALSE, result |-> r]] :
        r \in results }

HttpResponses(results) == HttpFailures \cup HttpResults(results)

\* what the call evaluates to: a thrown error or data.result
odooJsonRpc(res) ==
    IF res.rejected
    THEN [threw |-> TRUE, err |-> [name |-> "TypeError", message |-> "fetch failed"]]
    ELSE IF ~res.ok
    THEN [threw |-> TRUE,
          err |-> [name |-> "Error",
                   message |-> "Odoo HTTP error " \o res.status \o ": " \o res.text]]
    ELSE IF res.data.error
    THEN [threw |-> TRUE,
          err |-> [name |-> "Error",
                   message |-> "Odoo JSON-RPC error: " \o res.data.errorJson]]
    ELSE [threw |-> FALSE, result |-> res.data.result]

\* the JSON-RPC payloads
odooAuthenticate(e) ==
    [ service |-> "common", method |-> "authenticate",
      args |-> <<e.ODOO_DB, e.ODOO_USERNAME, e.ODOO_API_KEY>> ]

odooSearchRead(e, u, model, domain, fields) ==
    [ service |-> "object", method |-> "execute_kw",
      args |-> <<e.ODOO_DB, u, e.ODOO_API_KEY, model, "search_read", domain, fields>> ]

odooWrite(e, u, model, id, vals) ==
    [ service |-> "object", method |-> "execute_kw",
      args |-> <<e.ODOO_DB, u, e.ODOO_API_KEY, model, "write", id, vals>> ]

\* the remote procedure a payload names
Procedure(payload) ==
    IF payload.service = "common" THEN payload.method ELSE payload.args[5]

PassengerModel == "x_tour_departure_passenger"
DepartureModel == "x_tour_departure"

LoadFields ==
    << "x_studio_test_token", "x_partner_id", "x_departure_id", "x_name",
       "x_passenger_first_name", "x_passenger_last_name", "x_passenger_middle_name",
       "x_passenger_email", "x_date_of_birth", "x_sex", "x_marrital_status",
       "x_nationality", "x_home_address", "x_job_position", "x_working_at",
       "x_type_of_room", "x_sharing_with", "x_pre_tour_extra_night",
       "x_post_tour_extra_night", "x_flight_arrival", "x_flight_departure",
       "x_diet", "x_allergies", "x_medical_conditions", "x_emergency_contact",
       "x_emergency_contact_number", "x_passport_number", "x_passport_issue_date",
       "x_passport_expiry_date", "x_notes" >>

DepartureFields == <<"x_name", "x_departure_date", "x_end_date">>

(***************************************************************************)
(* Load: mapping of the upstream records to the external shape.            *)
(***************************************************************************)
m2oToObj(field) ==
    IF IsArray(field) /\ Len(field.items) >= 2
    THEN Obj([k \in {"id", "name"} |->
                 IF k = "id" THEN field.items[1] ELSE field.items[2]])
    ELSE Null

OrNull(p, k) == Or(Get(p, k), Null)

MapPassenger(p) ==
    LET partner == m2oToObj(Get(p, "x_partner_id"))
        dep == m2oToObj(Get(p, "x_departure_id"))
    IN [ id |-> Get(p, "id"),
         token |-> OrNull(p, "x_studio_test_token"),
         partner |-> partner,
         departure_m2o |-> dep,
         name |-> Or(Get(p, "x_name"),
                     Or(IF Truthy(partner) THEN Get(partner, "name") ELSE partner,
                        Null)),
         first_name |-> OrNull(p, "x_passenger_first_name"),
         middle_name |-> OrNull(p, "x_passenger_middle_name"),
         last_name |-> OrNull(p, "x_passenger_last_name"),
         sex |-> OrNull(p, "x_sex"),
         marital_status |-> OrNull(p, "x_marrital_status"),
         date_of_birth |-> OrNull(p, "x_date_of_birth"),
         nationality |-> OrNull(p, "x_nationality"),
         email |-> OrNull(p, "x_passenger_email"),
         home_address |-> OrNull(p, "x_home_address"),
         job_position |-> OrNull(p, "x_job_position"),
         working_at |-> OrNull(p, "x_working_at"),
         type_of_room |-> OrNull(p, "x_type_of_room"),
         sharing_with |-> OrNull(p, "x_sharing_with"),
         pre_tour_extra_night |-> OrNull(p, "x_pre_tour_extra_night"),
         post_tour_extra_night |-> OrNull(p, "x_post_tour_extra_night"),
         flight_arrival |-> OrNull(p, "x_flight_arrival"),
         flight_departure |-> OrNull(p, "x_flight_departure"),
         diet |-> OrNull(p, "x_diet"),
         allergies |-> OrNull(p, "x_allergies"),
         medical_conditions |-> OrNull(p, "x_medical_conditions"),
         emergency_contact |-> OrNull(p, "x_emergency_contact"),
         emergency_contact_number |-> OrNull(p, "x_emergency_contact_number"),
         passport_number |-> Or(Get(p, "x_passport_number"), Str(<<>>)),
         passport_issue_date |-> OrNull(p, "x_passport_issue_date"),
         passport_expiry_date |-> OrNull(p, "x_passport_expiry_date"),
         notes |-> OrNull(p, "x_notes") ]

\* the records mapped last to first
mappedPassengersReversed(data) ==
    [i \in 1..Len(data.items) |-> MapPassenger(data.items[Len(data.items) + 1 - i])]

\* passengersData.map(p => ...)
mappedPassengers(data) == [i \in 1..Len(data.items) |-> MapPassenger(data.items[i])]

\* departureInfo from the answer of the departure lookup
DepartureInfo(departures) ==
    IF Truthy(departures) /\ Len(departures.items) > 0
    THEN LET d == departures.items[1]
         IN Obj([k \in {"id", "name", "start_date", "end_date"} |->
                   CASE k = "id" -> Get(d, "id")
                     [] k = "name" -> OrNull(d, "x_name")
                     [] k = "start_date" -> OrNull(d, "x_departure_date")
                     [] OTHER -> OrNull(d, "x_end_date")])
    ELSE Null

\* !passengersData || passengersData.length === 0
NoneFound(data) == ~Truthy(data) \/ Len(data.items) = 0

\* const first = passengersData[0]
FirstRecord(data) == data.items[1]

\* Array.isArray(depField) && depField.length >= 1
HasDeparture(depField) == IsArray(depField) /\ Len(depField.items) >= 1

(***************************************************************************)
(* Request handler.                                                        *)
(***************************************************************************)
NoResponse == [type |-> "none"]

Respond(code, body) ==
    [statusCode |-> code, headers |-> buildCorsHeaders(event), body |-> body]

EmptyBody == [text |-> ""]

\* JSON.parse(event.body || '{}'): a body is absent, or a text that is either
\* invalid JSON or the text of a JSON value
JsonParse(body) ==
    CASE body.kind = "absent" -> [threw |-> FALSE, value |-> Obj(<<>>)]
      [] body.kind = "invalid" -> [threw |-> TRUE]
      [] OTHER -> [threw |-> FALSE, value |-> body.value]

payload == JsonParse(event.body).value
action == Get(payload, "action")
token == Get(payload, "token")
passengers == Get(payload, "passengers")

\* !ODOO_URL || !ODOO_DB || !ODOO_USERNAME || !ODOO_API_KEY
NotConfigured(e) ==
    \/ ~Truthy(e.ODOO_URL)
    \/ ~Truthy(e.ODOO_DB)
    \/ ~Truthy(e.ODOO_USERNAME)
    \/ ~Truthy(e.ODOO_API_KEY)

\* a call put on the wire; `at` is the passengers entry a write comes from
Call(rpc, at) == [payload |-> rpc, at |-> at, state |-> "pending", result |-> Undefined]

Issue(rpc, at) == Append(calls, Call(rpc, at))

\* the call in flight has come back
Settle(r) ==
    [calls EXCEPT ![Len(calls)].state = IF r.threw THEN "threw" ELSE "returned",
                  ![Len(calls)].result = IF r.threw THEN Undefined ELSE r.result]

\* catch (err): 500 with String(err)
ServerError(err) ==
    Respond(500, [error |-> "Server error", details |-> err.name \o ": " \o err.message])

Finish(resp) ==
    /\ pc' = "done"
    /\ response' = resp

PassengerSearch(u, fields) ==
    odooSearchRead(env, u, PassengerModel,
                   <<<<"x_studio_test_token", "=", token>>>>, fields)

\* lines 51-102: what the handler decides before it calls the upstream; the
\* destructuring of a null payload throws outside the try block
\* the configuration checked before anything else
ValidateConfigFirst(ev, e) ==
    IF NotConfigured(e)
    THEN [kind |-> "respond", code |-> 500,
          body |-> [error |-> "Odoo credentials not configured on server"]]
    ELSE IF ev.httpMethod = "OPTIONS"
    THEN [kind |-> "respond", code |-> 204, body |-> EmptyBody]
    ELSE IF ev.httpMethod # "POST"
    THEN [kind |-> "respond", code |-> 405, body |-> [error |-> "Method not allowed"]]
    ELSE IF JsonParse(ev.body).threw
    THEN [kind |-> "respond", code |-> 400, body |-> [error |-> "Invalid JSON body"]]
    ELSE IF Nullish(JsonParse(ev.body).value)
    THEN [kind |-> "reject"]
    ELSE IF ~Truthy(Get(JsonParse(ev.body).value, "token"))
    THEN [kind |-> "respond", code |-> 400, body |-> [error |-> "Missing token"]]
    ELSE [kind |-> "proceed"]

Validate(ev, e) ==
    IF ev.httpMethod = "OPTIONS"
    THEN [kind |-> "respond", code |-> 204, body |-> EmptyBody]
    ELSE IF ev.httpMethod # "POST"
    THEN [kind |-> "respond", code |-> 405, body |-> [error |-> "Method not allowed"]]
    ELSE IF JsonParse(ev.body).threw
    THEN [kind |-> "respond", code |-> 400, body |-> [error |-> "Invalid JSON body"]]
    ELSE IF Nullish(JsonParse(ev.body).value)
    THEN [kind |-> "reject"]
    ELSE IF ~Truthy(Get(JsonParse(ev.body).value, "token"))
    THEN [kind |-> "respond", code |-> 400, body |-> [error |-> "Missing token"]]
    ELSE IF NotConfigured(e)
    THEN [kind |-> "respond", code |-> 500,
          body |-> [error |-> "Odoo credentials not configured on server"]]
    ELSE [kind |-> "proceed"]

\* lines 51-106: from the invocation to the authenticate call
Receive ==
    /\ pc = "start"
    /\ UNCHANGED <<event, env, uid, passengersData, validIds, cursor>>
    /\ LET v == Validate(event, env)
       IN CASE v.kind = "respond" ->
                 /\ pc' = "done"
                 /\ response' = Respond(v.code, v.body)
                 /\ UNCHANGED calls
            [] v.kind = "reject" ->
                 /\ pc' = "rejected"
                 /\ response' = NoResponse
                 /\ UNCHANGED calls
            [] OTHER ->
                 /\ calls' = Issue(odooAuthenticate(env), 0)
                 /\ pc' = "authenticate"
                 /\ UNCHANGED response

\* the save loop from entry i on: up to the next write, the end, or a throw
RunLoop(valid, i, log) ==
    LET step == Scan(passengers.items, valid, i)
    IN CASE step.kind = "done" ->
              /\ Finish(Respond(200, [status |-> "ok"]))
              /\ calls' = log
              /\ UNCHANGED cursor
         [] step.kind = "throw" ->
              /\ Finish(ServerError(step.err))
              /\ calls' = log
              /\ cursor' = step.at
         [] OTHER ->
              /\ calls' = Append(log, Call(odooWrite(env, uid, PassengerModel,
                                                      step.id, step.vals), step.at))
              /\ cursor' = step.at
              /\ pc' = "write"
              /\ UNCHANGED response

AuthResults == {Num(2), Bool(FALSE), Undefined}

\* if (uid === false)
AuthFailedStrict(u) == u = Bool(FALSE)

\* if (!uid)
AuthFailed(u) == ~Truthy(u)

\* lines 106-298: the identity comes back; dispatch on the action
AuthReturns ==
    /\ pc = "authenticate"
    /\ UNCHANGED <<event, env, passengersData, validIds, cursor>>
    /\ \E res \in HttpResponses(AuthResults) :
         LET r == odooJsonRpc(res)
         IN /\ uid' = IF r.threw THEN uid ELSE r.result
            /\ IF r.threw
               THEN Finish(ServerError(r.err)) /\ calls' = Settle(r)
               ELSE IF AuthFailed(r.result)
               THEN /\ Finish(Respond(401, [error |-> "Authentication to Odoo failed"]))
                    /\ calls' = Settle(r)
               ELSE IF action = load
               THEN /\ calls' = Append(Settle(r),
                                       Call(PassengerSearch(r.result, LoadFields), 0))
                    /\ pc' = "load_search"
                    /\ UNCHANGED response
               ELSE IF action = save
               THEN IF ~IsArray(passengers)
                    THEN /\ Finish(Respond(400,
                                [error |-> "Missing passengers array for save action"]))
                         /\ calls' = Settle(r)
                    ELSE /\ calls' = Append(Settle(r),
                                       Call(PassengerSearch(r.result, <<"id">>), 0))
                         /\ pc' = "save_search"
                         /\ UNCHANGED response
               ELSE /\ Finish(Respond(400, [error |-> "Unknown action"]))
                    /\ calls' = Settle(r)

(***************************************************************************)
(* What the upstream may answer to a search_read.                          *)
(***************************************************************************)
Text(c) == Str(<<c>>)

DepartureRefs ==
    { Bool(FALSE), Arr(<<Num(7)>>), Arr(<<Num(7), Text("T")>>),
      Arr(<<Num(8), Text("O")>>) }

\* a passenger record as Odoo returns it: every field read, unset ones false
PassengerRecord(id, dep, filled) ==
    Obj([k \in {"id"} \cup {LoadFields[i] : i \in 1..Len(LoadFields)} |->
           CASE k = "id" -> Num(id)
             [] k = "x_departure_id" -> dep
             [] k = "x_partner_id" ->
                  IF filled THEN Arr(<<Num(9), Text("P")>>) ELSE Bool(FALSE)
             [] k = "x_studio_test_token" -> token
             [] k = "x_name" -> Bool(FALSE)
             [] OTHER -> IF filled THEN Text("v") ELSE Bool(FALSE)])

PassengerRecords ==
    { PassengerRecord(1, dep, TRUE) : dep \in DepartureRefs }
    \cup { PassengerRecord(2, dep, FALSE) : dep \in {Bool(FALSE), Arr(<<Num(8), Text("O")>>)} }

RECURSIVE SeqsUpTo(_, _)
SeqsUpTo(S, n) ==
    IF n = 0 THEN {<<>>}
    ELSE LET shorter == SeqsUpTo(S, n - 1)
         IN shorter \cup {Append(q, x) : q \in shorter, x \in S}

LoadResults ==
    {Bool(FALSE), Undefined} \cup {Arr(q) : q \in SeqsUpTo(PassengerRecords, MaxRecords)}

DepartureRecord(id) ==
    Obj([k \in {"id", "x_name", "x_departure_date", "x_end_date"} |->
           CASE k = "id" -> Num(id)
             [] k = "x_name" -> Text("T")
             [] k = "x_departure_date" -> Text("d")
             [] OTHER -> Bool(FALSE)])

DepartureResults(depId) ==
    {Bool(FALSE), Arr(<<>>), Arr(<<DepartureRecord(depId.n)>>)}

IdRecord(id) == Obj([k \in {"id"} |-> Num(id)])

ExistingResults ==
    { Bool(FALSE), Arr(<<>>), Arr(<<IdRecord(1)>>), Arr(<<IdRecord(2), IdRecord(1)>>) }

WriteResults == {Bool(TRUE), Bool(FALSE)}

\* lines 120-217: the passenger records come back
LoadSearchReturns ==
    /\ pc = "load_search"
    /\ UNCHANGED <<event, env, uid, validIds, cursor>>
    /\ \E res \in HttpResponses(LoadResults) :
         LET r == odooJsonRpc(res)
         IN IF r.threw
            THEN /\ Finish(ServerError(r.err))
                 /\ calls' = Settle(r)
                 /\ UNCHANGED passengersData
            ELSE /\ passengersData' = r.result
                 /\ IF NoneFound(r.result)
                    THEN /\ Finish(Respond(404,
                                [status |-> "not_found",
                                 message |-> "No passengers found for this token"]))
                         /\ calls' = Settle(r)
                    ELSE LET depField == Get(FirstRecord(r.result), "x_departure_id")
                         IN IF HasDeparture(depField)
                            THEN /\ calls' = Append(Settle(r),
                                        Call(odooSearchRead(env, uid, DepartureModel,
                                                 <<<<"id", "=", depField.items[1]>>>>,
                                                 DepartureFields), 0))
                                 /\ pc' = "load_departure"
                                 /\ UNCHANGED response
                            ELSE /\ Finish(Respond(200,
                                        [status |-> "ok", departure |-> Null,
                                         passengers |-> mappedPassengers(r.result)]))
                                 /\ calls' = Settle(r)

\* lines 198-275: the departure comes back
DepartureReturns ==
    /\ pc = "load_departure"
    /\ UNCHANGED <<event, env, uid, passengersData, validIds, cursor>>
    /\ \E res \in HttpResponses(DepartureResults(calls[Len(calls)].payload.args[6][1][3])) :
         LET r == odooJsonRpc(res)
         IN /\ calls' = Settle(r)
            /\ IF r.threw
               THEN Finish(ServerError(r.err))
               ELSE Finish(Respond(200,
                        [status |-> "ok", departure |-> DepartureInfo(r.result),
                         passengers |-> mappedPassengers(passengersData)]))

\* lines 290-354: the ids of the token's records come back; the loop starts
SaveSearchReturns ==
    /\ pc = "save_search"
    /\ UNCHANGED <<event, env, uid, passengersData>>
    /\ \E res \in HttpResponses(ExistingResults) :
         LET r == odooJsonRpc(res)
         IN IF r.threw
            THEN /\ Finish(ServerError(r.err))
                 /\ calls' = Settle(r)
                 /\ UNCHANGED <<validIds, cursor>>
            ELSE /\ validIds' = IdSet(r.result)
                 /\ RunLoop(IdSet(r.result), 1, Settle(r))

\* a write answered false is reported as a failure
WriteReturnsChecked ==
    /\ pc = "write"
    /\ UNCHANGED <<event, env, uid, passengersData, validIds>>
    /\ \E res \in HttpResponses(WriteResults) :
         LET r == odooJsonRpc(res)
         IN IF r.threw
            THEN /\ Finish(ServerError(r.err))
                 /\ calls' = Settle(r)
                 /\ UNCHANGED cursor
            ELSE IF ~Truthy(r.result)
            THEN /\ Finish(ServerError([name |-> "Error", message |-> "write refused"]))
                 /\ calls' = Settle(r)
                 /\ UNCHANGED cursor
            ELSE RunLoop(validIds, cursor + 1, Settle(r))

\* a failed write is caught inside the loop, which goes on
WriteReturnsContinue ==
    /\ pc = "write"
    /\ UNCHANGED <<event, env, uid, passengersData, validIds>>
    /\ \E res \in HttpResponses(WriteResults) :
         RunLoop(validIds, cursor + 1, Settle(odooJsonRpc(res)))

\* lines 345-360: a write comes back; the loop goes on
WriteReturns ==
    /\ pc = "write"
    /\ UNCHANGED <<event, env, uid, passengersData, validIds>>
    /\ \E res \in HttpResponses(WriteResults) :
         LET r == odooJsonRpc(res)
         IN IF r.threw
            THEN /\ Finish(ServerError(r.err))
                 /\ calls' = Settle(r)
                 /\ UNCHANGED cursor
            ELSE RunLoop(validIds, cursor + 1, Settle(r))

Next ==
    \/ Receive
    \/ AuthReturns
    \/ LoadSearchReturns
    \/ DepartureReturns
    \/ SaveSearchReturns
    \/ WriteReturns

(***************************************************************************)
(* The requests the handler is invoked with.                               *)
(***************************************************************************)
\* an object from a set of <<key, value>> pairs; an Undefined value is an absent key
FromPairs(pairs) ==
    LET present == {pr \in pairs : pr[2] # Undefined}
    IN Obj([k \in {pr[1] : pr \in present} |-> (CHOOSE pr \in present : pr[1] = k)[2]])

Headers(o1, o2) == [type |-> "object", origin |-> o1, Origin |-> o2]

HeaderSets ==
    { Undefined, Headers("", ""), Headers("https://adventurebound.travel", ""),
      Headers("", "https://www.adventurebound.travel"),
      Headers("https://evil.example", "") }

Env(url, db, user, key) ==
    [ODOO_URL |-> url, ODOO_DB |-> db, ODOO_USERNAME |-> user, ODOO_API_KEY |-> key]

FullEnv == Env(Text("u"), Text("d"), Text("n"), Text("k"))

Envs ==
    { FullEnv,
      Env(Undefined, Text("d"), Text("n"), Text("k")),
      Env(Text("u"), Str(<<>>), Text("n"), Text("k")),
      Env(Text("u"), Text("d"), Undefined, Text("k")),
      Env(Text("u"), Text("d"), Text("n"), Undefined),
      Env(Undefined, Undefined, Undefined, Undefined) }

JsonBody(v) == [kind |-> "text", value |-> v]

Request(method, headers, body, e) ==
    [event |-> [httpMethod |-> method, headers |-> headers, body |-> body], env |-> e]

PayloadObjects ==
    { FromPairs({<<"action", a>>, <<"token", t>>, <<"passengers", ps>>}) :
        a \in {Undefined, load, save, Text("x")},
        t \in {Undefined, Str(<<>>), Text("t")},
        ps \in {Undefined, Text("x"), Arr(<<>>)} }

ShallowBodies ==
    { [kind |-> "absent"], [kind |-> "invalid"], JsonBody(Null), JsonBody(Num(5)),
      JsonBody(Arr(<<>>)) }
    \cup { JsonBody(o) : o \in PayloadObjects }

\* every method, header set, configuration and body shape
ShallowRequests ==
    { Request(m, h, b, e) :
        m \in {"OPTIONS", "POST", "GET"}, h \in HeaderSets, b \in ShallowBodies,
        e \in Envs }

SaveRequest(items) ==
    Request("POST", Headers("https://adventurebound.travel", ""),
            JsonBody(FromPairs({<<"action", save>>, <<"token", Text("t")>>,
                                <<"passengers", Arr(items)>>})),
            FullEnv)

\* entries of a save: an id that is absent, valid or not, with an allow-listed
\* key, a foreign key or none; and null
LoopEntries ==
    { Null, FromPairs({<<"id", Num(1)>>}),
      FromPairs({<<"id", Num(0)>>, <<"passport_number", Text("X")>>}),
      FromPairs({<<"id", Text("1")>>, <<"passport_number", Text("X")>>}) }
    \cup { FromPairs({<<"id", id>>, <<"passport_number", Text("X")>>}) :
             id \in {Undefined, Num(1), Num(2), Num(3)} }
    \cup { FromPairs({<<"id", id>>, <<"superAdmin", Bool(TRUE)>>}) :
             id \in {Undefined, Num(1), Num(2), Num(3)} }

LoopRequests ==
    { SaveRequest(items) : items \in SeqsUpTo(LoopEntries, MaxPassengers) }

AllowedKeys ==
    { "first_name", "middle_name", "last_name", "sex", "marital_status",
      "date_of_birth", "passport_issue_date", "passport_expiry_date", "email",
      "nationality", "home_address", "job_position", "working_at",
      "passport_number", "notes" }

DateKeys == {"date_of_birth", "passport_issue_date", "passport_expiry_date"}

ForeignKeys == {"superAdmin", "x_studio_test_token", "type_of_room"}

FieldValues(k) ==
    { Text("A"), Null, Num(5) }
    \cup (IF k \in {"sex", "marital_status"}
          THEN { Str(<<" ", "M", "a", "l", "e">>),
                 Str(<<"M", "a", "r", "r", "i", "e", "d", " ">>),
                 Str(<<"R", "a", "t", "h", "e", "r", " ", "N", "o", "t", " ",
                       "S", "a", "y">>),
                 Str(<<>>) }
          ELSE {})
    \cup (IF k \in DateKeys
          THEN { Str(<<"0", "5", "/", "0", "3", "/", "2", "0", "2", "6">>) }
          ELSE {})
    \cup (IF k = "superAdmin" THEN {Bool(TRUE)} ELSE {})

RECURSIVE PairSets(_)
\* the sets of at most n <<key, value>> pairs, no key twice
PairSets(n) ==
    IF n = 0 THEN {{}}
    ELSE LET fewer == PairSets(n - 1)
         IN fewer \cup
            { ps \cup {<<k, v>>} :
                <<ps, k, v>> \in
                  { t \in UNION { { <<ps, k, v>> : v \in FieldValues(k) } :
                                    <<ps, k>> \in fewer \X (AllowedKeys \cup ForeignKeys) } :
                      \A pr \in t[1] : pr[1] # t[2] } }

FieldRequests ==
    { SaveRequest(<<FromPairs(ps \cup {<<"id", Num(1)>>})>>) : ps \in PairSets(MaxKeys) }
    \cup { SaveRequest(<<FromPairs({<<"id", Num(1)>>, <<"superAdmin", Bool(TRUE)>>,
                                    <<"passport_number", Text("X")>>})>>) }

(***************************************************************************)
(* Date inputs: dd/mm/yyyy, every one-character change of it, the ISO      *)
(* form, each bare or with MaxPad blanks before it, after it, or both.     *)
(***************************************************************************)
SampleDate == <<"0", "5", "/", "0", "3", "/", "2", "0", "2", "6">>
IsoDate == <<"2", "0", "2", "6", "-", "0", "3", "-", "0", "5">>
DateChars == {"1", "/", "-", " ", "a"}

RECURSIVE Blanks(_)
Blanks(n) == IF n = 0 THEN <<>> ELSE <<" ">> \o Blanks(n - 1)

DateCores ==
    { SampleDate, IsoDate, <<>> }
    \cup { [SampleDate EXCEPT ![i] = c] : i \in 1..Len(SampleDate), c \in DateChars }
    \cup { SubSeq(SampleDate, 1, i - 1) \o SubSeq(SampleDate, i + 1, Len(SampleDate)) :
             i \in 1..Len(SampleDate) }
    \cup { SampleDate \o <<c>> : c \in DateChars \cup {"7"} }
    \cup { <<c>> \o SampleDate : c \in DateChars \cup {"7"} }

DateInputs ==
    { Str(Blanks(l) \o core \o Blanks(r)) :
        l \in {0, MaxPad}, r \in {0, MaxPad}, core \in DateCores }

DateRequests ==
    { SaveRequest(<<FromPairs({<<"id", Num(1)>>, <<k, v>>})>>) :
        k \in DateKeys, v \in DateInputs }

Requests == ShallowRequests \cup LoopRequests \cup FieldRequests \cup DateRequests

Init ==
    /\ \E r \in Requests :
         /\ event = r.event
         /\ env = r.env
    /\ pc = "start"
    /\ uid = Undefined
    /\ passengersData = Undefined
    /\ validIds = {}
    /\ cursor = 0
    /\ calls = <<>>
    /\ response = NoResponse

Spec == Init /\ [][Next]_vars

(***************************************************************************)
(* Vocabulary of the properties.                                           *)
(***************************************************************************)
Terminated == pc \in {"done", "rejected"}

IsPost == event.httpMethod = "POST"

\* the indices of the calls of one remote procedure
CallsTo(proc) == {j \in 1..Len(calls) : Procedure(calls[j].payload) = proc}

WriteId(j) == calls[j].payload.args[6]
WriteVals(j) == calls[j].payload.args[7]

\* a save whose valid-id query has returned
SaveLoopEntered ==
    /\ Len(calls) >= 2
    /\ Procedure(calls[2].payload) = "search_read"
    /\ calls[2].payload.args[7] = <<"id">>
    /\ calls[2].state = "returned"

Entries == passengers.items

\* the id of an entry, absent on an entry that is no object
EntryId(e) == IF e.type = "object" /\ "id" \in DOMAIN e.f THEN e.f["id"] ELSE Undefined

\* the ids the valid-id query of this request answered
AnsweredIds ==
    IF calls[2].result.type = "array"
    THEN {calls[2].result.items[i].f["id"] : i \in 1..Len(calls[2].result.items)}
    ELSE {}

\* the entry's id is missing or not among the token's ids
IdRejected(e) == EntryId(e) \in {Undefined, Null, Num(0)} \/ EntryId(e) \notin AnsweredIds

AllowListInternal ==
    { "x_passenger_first_name", "x_passenger_middle_name", "x_passenger_last_name",
      "x_sex", "x_marrital_status", "x_date_of_birth", "x_passport_issue_date",
      "x_passport_expiry_date", "x_passenger_email", "x_nationality",
      "x_home_address", "x_job_position", "x_working_at", "x_passport_number",
      "x_notes" }

OkResponse == pc = "done" /\ response.statusCode = 200 /\ response.body = [status |-> "ok"]

ErrorEnvelope(code) ==
    /\ pc = "done"
    /\ response.statusCode = code
    /\ "error" \in DOMAIN response.body

(***************************************************************************)
(* C1.  Every write of a save targets an id that the valid-id query of the *)
(* same request answered; an entry whose id is missing or not among those  *)
(* ids gives no write and no error, and the response is still 200; save    *)
(* calls no procedure but authenticate, search_read and write.  Stated as  *)
(* the claim has it, for every entry of the array, null entries included.  *)
(***************************************************************************)
C1_RejectedIdsAreSkippedSilently ==
    SaveLoopEntered =>
      /\ \A j \in CallsTo("write") :
            /\ j > 2
            /\ WriteId(j) \in AnsweredIds
            /\ WriteId(j) = EntryId(Entries[calls[j].at])
      /\ \A i \in 1..Len(Entries) :
            IdRejected(Entries[i]) => \A j \in CallsTo("write") : calls[j].at # i
      /\ \A j \in 1..Len(calls) :
            Procedure(calls[j].payload) \in {"authenticate", "search_read", "write"}
      /\ (Terminated /\ \A i \in 1..Len(Entries) : IdRejected(Entries[i]))
            => OkResponse /\ CallsTo("write") = {}

(***************************************************************************)
(* C2.  The fields of the values mapping of every write are internal       *)
(* fields of the allow-list, each one coming from its own external key of  *)
(* the entry; an entry with a valid id and no allow-listed key gives no    *)
(* write, and a save made only of such entries ends 200 without a write.   *)
(***************************************************************************)
ExternalKeyOf(k) ==
    CASE k = "x_passenger_first_name" -> "first_name"
      [] k = "x_passenger_middle_name" -> "middle_name"
      [] k = "x_passenger_last_name" -> "last_name"
      [] k = "x_sex" -> "sex"
      [] k = "x_marrital_status" -> "marital_status"
      [] k = "x_date_of_birth" -> "date_of_birth"
      [] k = "x_passport_issue_date" -> "passport_issue_date"
      [] k = "x_passport_expiry_date" -> "passport_expiry_date"
      [] k = "x_passenger_email" -> "email"
      [] k = "x_nationality" -> "nationality"
      [] k = "x_home_address" -> "home_address"
      [] k = "x_job_position" -> "job_position"
      [] k = "x_working_at" -> "working_at"
      [] k = "x_passport_number" -> "passport_number"
      [] OTHER -> "notes"

\* a valid id and no key of the allow-list
OnlyForeignKeys(e) ==
    /\ e.type = "object"
    /\ ~IdRejected(e)
    /\ DOMAIN e.f \cap AllowedKeys = {}

C2_OnlyAllowListedFieldsAreWritten ==
    SaveLoopEntered =>
      /\ \A j \in CallsTo("write") :
            /\ DOMAIN WriteVals(j) \subseteq AllowListInternal
            /\ DOMAIN WriteVals(j) # {}
            /\ \A k \in DOMAIN WriteVals(j) :
                  ExternalKeyOf(k) \in DOMAIN Entries[calls[j].at].f
      /\ \A i \in 1..Len(Entries) :
            OnlyForeignKeys(Entries[i]) => \A j \in CallsTo("write") : calls[j].at # i
      /\ (Terminated /\ \A i \in 1..Len(Entries) : OnlyForeignKeys(Entries[i]))
            => OkResponse /\ CallsTo("write") = {}

\* {id: 1, superAdmin: true} with 1 a valid id: done, 200, nothing written
C2_Witness ==
    /\ SaveLoopEntered
    /\ Len(Entries) = 1
    /\ Entries[1] = FromPairs({<<"id", Num(1)>>, <<"superAdmin", Bool(TRUE)>>})
    /\ Num(1) \in AnsweredIds
    /\ OkResponse
    /\ CallsTo("write") = {}

(***************************************************************************)
(* C3.  A POST whose body is not the expected structure (invalid JSON, or  *)
(* JSON that is no object, null included) is answered 400 with an error    *)
(* envelope, without any upstream call, and never ends without a response. *)
(***************************************************************************)
NotAnObject ==
    \/ JsonParse(event.body).threw
    \/ JsonParse(event.body).value.type # "object"

C3_MalformedBodyIs400 ==
    (IsPost /\ NotAnObject) =>
      /\ calls = <<>>
      /\ pc # "rejected"
      /\ pc = "done" => ErrorEnvelope(400)

(***************************************************************************)
(* C4.  As claimed: once the valid-id query of a save has returned, the    *)
(* handler answers 200 {status: "ok"} whatever the outcome of the write    *)
(* calls (stated for arrays without a null entry, so that the outcome of   *)
(* the writes is all that is left to decide the response).                 *)
(***************************************************************************)
NoNullEntry == \A i \in 1..Len(Entries) : Entries[i] # Null

SomeWriteThrew == \E j \in CallsTo("write") : calls[j].state = "threw"

C4_Always200AfterValidIdQuery ==
    (SaveLoopEntered /\ NoNullEntry /\ pc = "done") => OkResponse

(***************************************************************************)
(* C4, amended.  Once the valid-id query of a save has returned, the       *)
(* handler answers 200 {status: "ok"} exactly when the loop runs to its    *)
(* end: whatever the write calls returned (a write answered false is not   *)
(* surfaced), and unless a write call threw or an entry is null, in which  *)
(* cases the answer is 500 with error and details.                         *)
(***************************************************************************)
C4_200UnlessAWriteThrows ==
    (SaveLoopEntered /\ pc = "done") =>
      IF SomeWriteThrew \/ ~NoNullEntry
      THEN ErrorEnvelope(500) /\ "details" \in DOMAIN response.body
      ELSE OkResponse

\* a write answered false, and the response is 200 all the same
C4_Witness ==
    /\ SaveLoopEntered
    /\ OkResponse
    /\ \E j \in CallsTo("write") :
          calls[j].state = "returned" /\ calls[j].result = Bool(FALSE)

(***************************************************************************)
(* C5.  An OPTIONS request is answered with a success status, an empty     *)
(* body and the CORS headers, whatever its body and the configuration,     *)
(* and no upstream call is ever issued for it.                             *)
(***************************************************************************)
C5_PreflightShortCircuits ==
    event.httpMethod = "OPTIONS" =>
      /\ calls = <<>>
      /\ pc \in {"start", "done"}
      /\ pc = "done" =>
           /\ response.statusCode \in 200..299
           /\ response.body = EmptyBody
           /\ response.headers.AccessControlAllowOrigin \in allowedOrigins
           /\ response.headers.AccessControlAllowHeaders = "Content-Type"
           /\ response.headers.AccessControlAllowMethods = "POST, OPTIONS"

\* a preflight with an unparseable body and no configuration, answered
C5_Witness ==
    /\ event.httpMethod = "OPTIONS"
    /\ event.body.kind = "invalid"
    /\ env.ODOO_URL = Undefined
    /\ pc = "done"
    /\ response.statusCode = 204

(***************************************************************************)
(* C6.  A POST whose body carries no token is answered 400, whatever the   *)
(* action and whether or not the upstream configuration is present, and    *)
(* no upstream call is issued.                                             *)
(***************************************************************************)
NoToken ==
    \/ JsonParse(event.body).threw
    \/ JsonParse(event.body).value.type # "object"
    \/ "token" \notin DOMAIN JsonParse(event.body).value.f
    \/ JsonParse(event.body).value.f["token"] = Str(<<>>)

C6_MissingTokenIs400 ==
    (IsPost /\ NoToken) =>
      /\ calls = <<>>
      /\ Terminated => ErrorEnvelope(400)

(***************************************************************************)
(* C7.  As claimed: an authenticated load whose passenger search_read      *)
(* answers nothing (empty or falsy) ends 404 "not_found" with no departure *)
(* lookup and no write; one that answers at least one record ends 200      *)
(* "ok" with one mapped passenger per record, in order, and a departure    *)
(* resolved from the first record only.                                    *)
(***************************************************************************)
LoadSearchReturned ==
    /\ Len(calls) >= 2
    /\ Procedure(calls[2].payload) = "search_read"
    /\ calls[2].payload.args[7] = LoadFields
    /\ calls[2].state = "returned"

Found == calls[2].result.type = "array" /\ calls[2].result.items # <<>>

Records == calls[2].result.items

\* the departure reference of the first record, when it names an id
FirstDeparture == Records[1].f["x_departure_id"]

LooksUpDeparture == FirstDeparture.type = "array" /\ FirstDeparture.items # <<>>

NotFoundAnswer ==
    /\ pc = "done"
    /\ response.statusCode = 404
    /\ response.body.status = "not_found"
    /\ Len(calls) = 2

\* the passengers of the body follow the records, one for one
MappedInOrder ==
    /\ Len(response.body.passengers) = Len(Records)
    /\ \A i \in 1..Len(Records) :
          /\ response.body.passengers[i].id = Records[i].f["id"]
          /\ response.body.passengers[i].departure_m2o =
                m2oToObj(Records[i].f["x_departure_id"])

\* at most one departure lookup, on the id the first record names
DepartureFromFirst ==
    IF LooksUpDeparture
    THEN /\ Len(calls) = 3
         /\ calls[3].payload.args[4] = DepartureModel
         /\ calls[3].payload.args[6] = <<<<"id", "=", FirstDeparture.items[1]>>>>
         /\ response.body.departure =
               IF calls[3].result.type = "array" /\ calls[3].result.items # <<>>
               THEN LET d == calls[3].result.items[1].f
                        orNull(v) == IF v = Bool(FALSE) THEN Null ELSE v
                    IN Obj([k \in {"id", "name", "start_date", "end_date"} |->
                             CASE k = "id" -> FirstDeparture.items[1]
                               [] k = "name" -> orNull(d["x_name"])
                               [] k = "start_date" -> orNull(d["x_departure_date"])
                               [] OTHER -> orNull(d["x_end_date"])])
               ELSE Null
    ELSE Len(calls) = 2 /\ response.body.departure = Null

FoundAnswer ==
    /\ pc = "done"
    /\ response.statusCode = 200
    /\ response.body.status = "ok"
    /\ MappedInOrder
    /\ DepartureFromFirst

C7_LoadIs404Or200 ==
    (LoadSearchReturned /\ pc = "done") =>
      /\ CallsTo("write") = {}
      /\ IF Found THEN FoundAnswer ELSE NotFoundAnswer

(***************************************************************************)
(* C7, amended.  The same, except that when the departure lookup issued    *)
(* for the first record fails (transport or RPC-level error) the response  *)
(* is 500 with error and details instead of 200.                           *)
(***************************************************************************)
DepartureLookupThrew == Len(calls) = 3 /\ calls[3].state = "threw"

C7_LoadIs404Or200UnlessLookupFails ==
    (LoadSearchReturned /\ pc = "done") =>
      /\ CallsTo("write") = {}
      /\ IF ~Found THEN NotFoundAnswer
         ELSE IF DepartureLookupThrew
         THEN /\ ErrorEnvelope(500)
              /\ "details" \in DOMAIN response.body
              /\ LooksUpDeparture
         ELSE FoundAnswer

\* two records naming different departures: the first one's is resolved
C7_Witness ==
    /\ LoadSearchReturned
    /\ pc = "done"
    /\ Found
    /\ Len(Records) = 2
    /\ Records[1].f["id"] # Records[2].f["id"]
    /\ LooksUpDeparture
    /\ Records[2].f["x_departure_id"] # FirstDeparture
    /\ response.statusCode = 200
    /\ response.body.departure # Null

(***************************************************************************)
(* C8.  authenticate is called at most once, and before any search_read    *)
(* or write; when it returns a falsy identity the response is 401 and no   *)
(* search_read or write is issued; none is ever issued in a request whose  *)
(* authenticate has not returned a truthy identity.                        *)
(***************************************************************************)
FalsyIdentity(v) == v \in {Undefined, Null, Bool(FALSE), Num(0), Str(<<>>)}

C8_AuthenticateOnceAndFirst ==
    /\ CallsTo("authenticate") \subseteq {1}
    /\ \A j \in CallsTo("search_read") \cup CallsTo("write") :
          /\ j > 1
          /\ 1 \in CallsTo("authenticate")
          /\ calls[1].state = "returned"
          /\ ~FalsyIdentity(calls[1].result)
          /\ calls[j].payload.args[2] = calls[1].result
    /\ (calls # <<>> /\ calls[1].state = "returned" /\ FalsyIdentity(calls[1].result))
          => /\ Len(calls) = 1
             /\ ErrorEnvelope(401)

\* a save refused 401 on an identity that is falsy without being `false`
C8_Witness ==
    /\ Len(calls) = 1
    /\ calls[1].state = "returned"
    /\ calls[1].result = Undefined
    /\ action = save
    /\ IsArray(passengers)
    /\ pc = "done"
    /\ response.statusCode = 401

(***************************************************************************)
(* C9.  As claimed: a date field supplied non-null on a valid-id entry is  *)
(* written as yyyy-mm-dd, with the digits of the input, when the input is  *)
(* exactly dd/mm/yyyy, and is written unchanged for every other input.     *)
(***************************************************************************)
IsDigitChar(c) == c \in {"0", "1", "2", "3", "4", "5", "6", "7", "8", "9"}

\* two digits, slash, two digits, slash, four digits
ExactlyDdMmYyyy(s) ==
    /\ Len(s) = 10
    /\ s[3] = "/" /\ s[6] = "/"
    /\ \A i \in {1, 2, 4, 5, 7, 8, 9, 10} : IsDigitChar(s[i])

IsoOf(s) == <<s[7], s[8], s[9], s[10], "-", s[4], s[5], "-", s[1], s[2]>>

InternalDateField(k) ==
    CASE k = "date_of_birth" -> "x_date_of_birth"
      [] k = "passport_issue_date" -> "x_passport_issue_date"
      [] OTHER -> "x_passport_expiry_date"

\* the date inputs of the entry a write comes from, each with what was written
WrittenDates(j) ==
    LET e == Entries[calls[j].at].f
    IN { [input |-> e[k], written |-> WriteVals(j)[InternalDateField(k)]] :
           k \in {k \in DateKeys \cap DOMAIN e : e[k] # Null} }

PaddedDates(s) ==
    { SubSeq(s, a + 1, Len(s) - b) :
        <<a, b>> \in { t \in (0..Len(s)) \X (0..Len(s)) :
                         /\ t[1] + t[2] <= Len(s)
                         /\ \A i \in 1..t[1] : s[i] = " "
                         /\ \A i \in (Len(s) - t[2] + 1)..Len(s) : s[i] = " "
                         /\ ExactlyDdMmYyyy(SubSeq(s, t[1] + 1, Len(s) - t[2])) } }

C9_WitnessUnchanged ==
    /\ SaveLoopEntered
    /\ \E j \in CallsTo("write") : \E d \in WrittenDates(j) :
          /\ d.input = Str(IsoDate)
          /\ d.written = Str(IsoDate)

(***************************************************************************)
(* C10.  The writes of a save are issued one at a time, each after the     *)
(* previous one has come back, in the order of the passengers array and    *)
(* at most one per entry; when a write fails, the writes before it stay    *)
(* applied (nothing is called after the failure, neither a compensation    *)
(* nor a later write) and the response is 500 with error and details.      *)
(***************************************************************************)
C10_SequentialWritesStopAtFailure ==
    /\ \A j \in 1..Len(calls) : calls[j].state = "pending" => j = Len(calls) /\ ~Terminated
    /\ \A j, k \in CallsTo("write") : j < k => calls[j].at < calls[k].at
    /\ \A j \in CallsTo("write") :
          /\ calls[j].at \in 1..Len(Entries)
          /\ WriteId(j) = EntryId(Entries[calls[j].at])
          /\ calls[j].state = "threw" =>
                /\ j = Len(calls)
                /\ \A k \in CallsTo("write") : k < j => calls[k].state = "returned"
                /\ ErrorEnvelope(500)
                /\ "details" \in DOMAIN response.body

\* the second write of a save fails after the first one was applied
C10_Witness ==
    /\ pc = "done"
    /\ Cardinality(CallsTo("write")) = 2
    /\ calls[3].state = "returned"
    /\ calls[3].result = Bool(TRUE)
    /\ calls[4].state = "threw"
    /\ calls[3].at = 1 /\ calls[4].at = 2
    /\ response.statusCode = 500

====
